---- MODULE Spec2Model ----
(***************************************************************************)
(* Model of the transaction replay engine of src/src/main.rs: main,        *)
(* handle_transactions, write_output, ClientState, ClientRecord and        *)
(* TxDatabase.                                                             *)
(*                                                                         *)
(* Option<T> is modelled as a set with at most one element: None is {} and *)
(* Some(x) is {x}.  A Decimal is modelled as an integer number of the      *)
(* smallest unit; rust_decimal's checked arithmetic panics on overflow of  *)
(* its 96-bit mantissa, which the bounded amounts below cannot reach.      *)
(***************************************************************************)
EXTENDS Integers, Sequences, FiniteSets, TLC

\* ---------------------------------------------------------------- bounds
\* Number of rows the input file may hold.
MaxRecords == 4

\* The client ids (u16), transaction ids (u32) and amounts that occur in the
\* input rows.
ClientId == {1, 2}
TransactionId == {1, 2}
Decimal == {1, 2}

\* ---------------------------------------------------------------- Option
None == {}
Some(x) == {x}
is_none(o) == o = {}
is_some(o) == o # {}
unwrap(o) == CHOOSE x \in o : TRUE

\* ---------------------------------------------------------------- types
TransactionType == {"Deposit", "Withdrawal", "Dispute", "Resolve", "Chargeback"}

DisputeFamily == {"Dispute", "Resolve", "Chargeback"}

\* A decoded input row.  Deposit and Withdrawal rows may come with or without
\* an amount.  The dispute family is given none: its arms never read
\* record.value, so an amount on such a row changes nothing.
TransactionRecord ==
    [transaction_type : {"Deposit", "Withdrawal"},
     client_id : ClientId,
     transaction_id : TransactionId,
     value : {None} \cup {Some(a) : a \in Decimal}]
    \cup
    [transaction_type : DisputeFamily,
     client_id : ClientId,
     transaction_id : TransactionId,
     value : {None}]

\* ClientState::new that starts a client locked.
ClientState_new_locked ==
    [available |-> 0, held |-> 0, locked |-> TRUE, txns_under_dispute |-> {}]

\* ClientState::new
ClientState_new ==
    [available |-> 0, held |-> 0, locked |-> FALSE, txns_under_dispute |-> {}]

\* from_id_and_state with the total taken from the held funds alone.
from_id_and_state_held_only(id, state) ==
    [client_id |-> id,
     available |-> state.available,
     held |-> state.held,
     total |-> state.held,
     locked |-> state.locked]

\* ClientRecord::from_id_and_state
from_id_and_state(id, state) ==
    [client_id |-> id,
     available |-> state.available,
     held |-> state.held,
     total |-> state.held + state.available,
     locked |-> state.locked]

\* ---------------------------------------------------------------- TxDatabase
\* The HashMap is a function whose domain is its key set.
TxDatabase_new == [t \in {} |-> None]

query(db, tx_id) == IF tx_id \in DOMAIN db THEN Some(db[tx_id]) ELSE None

\* save under the client id where the code has the transaction id.
save_by_client(db, record) ==
    [t \in DOMAIN db \cup {record.client_id} |->
        IF t = record.client_id THEN record ELSE db[t]]

\* save that keeps the entry an id already has (entry().or_insert).
save_keeps_first(db, record) ==
    [t \in DOMAIN db \cup {record.transaction_id} |->
        IF t \in DOMAIN db THEN db[t] ELSE record]

save(db, record) ==
    [t \in DOMAIN db \cup {record.transaction_id} |->
        IF t = record.transaction_id THEN record ELSE db[t]]

\* ---------------------------------------------------------------- state
VARIABLES
    client_states,  \* [ClientId -> Option<ClientState>]
    seen_clients,   \* Vec<ClientId>, in order of creation
    tx_database,    \* TxDatabase.db
    output,         \* the rows written to stdout
    pc,             \* "running" | "error" | "panicked" | "done"
    record,         \* Option: the record the loop body last ran on
    branch,         \* the place where the loop body last left the match
    created,        \* whether the loop body last created its client
    n,              \* number of items taken from record_iter
    clients_read,   \* history: the client ids of the records read, in order
    moved,          \* history: per client and tx, the amount its last Dispute
                    \* moved and what came before its Resolve or Chargeback
    trip,           \* history: a Dispute and the Resolve right after it
    charged,        \* history: the clients whose Chargeback passed its checks
    streak          \* history: consecutive Disputes of one client on one tx
                    \* and the Resolve or Chargeback right after them

vars == <<client_states, seen_clients, tx_database, output, pc, record,
          branch, created, n, clients_read, moved, trip, charged, streak>>

Init ==
    /\ client_states = [c \in ClientId |-> None]
    /\ seen_clients = <<>>
    /\ tx_database = TxDatabase_new
    /\ output = <<>>
    /\ pc = "running"
    /\ record = None
    /\ branch = "start"
    /\ created = FALSE
    /\ n = 0
    /\ clients_read = <<>>
    /\ moved = [c \in ClientId |-> [t \in TransactionId |-> None]]
    /\ trip = None
    /\ charged = {}
    /\ streak = None

\* ---------------------------------------------------------------- match arms
\* Each arm takes the client's state, the store and the record, and gives the
\* client's state and the store after the arm together with the place where
\* the arm was left.

\* The Deposit arm that turns a locked client away.
DepositArm_refuses_locked(client, db, rec) ==
    IF is_none(rec.value)
    THEN [client |-> client, db |-> db, branch |-> "panic"]
    ELSE IF client.locked
         THEN [client |-> client, db |-> db, branch |-> "deposit"]
         ELSE [client |-> [client EXCEPT !.available = @ + unwrap(rec.value)],
               db |-> save(db, rec),
               branch |-> "deposit"]

\* The Deposit arm with `=` where the code has `+=`.
DepositArm_assigns(client, db, rec) ==
    IF is_none(rec.value)
    THEN [client |-> client, db |-> db, branch |-> "panic"]
    ELSE [client |-> [client EXCEPT !.available = unwrap(rec.value)],
          db |-> save(db, rec),
          branch |-> "deposit"]

DepositArm(client, db, rec) ==
    IF is_none(rec.value)
    THEN [client |-> client, db |-> db, branch |-> "panic"]
    ELSE [client |-> [client EXCEPT !.available = @ + unwrap(rec.value)],
          db |-> save(db, rec),
          branch |-> "deposit"]

\* The Withdrawal arm without the check of the available funds.
WithdrawalArm_unguarded(client, db, rec) ==
    IF is_none(rec.value)
    THEN [client |-> client, db |-> db, branch |-> "panic"]
    ELSE [client |-> [client EXCEPT !.available = @ - unwrap(rec.value)],
          db |-> save(db, rec),
          branch |-> "withdrawal"]

\* The Withdrawal arm that does not save a withdrawal it refuses.
WithdrawalArm_drops_refused(client, db, rec) ==
    IF is_none(rec.value)
    THEN [client |-> client, db |-> db, branch |-> "panic"]
    ELSE LET value == unwrap(rec.value) IN
         IF client.available < value
         THEN [client |-> client, db |-> db, branch |-> "insufficient"]
         ELSE [client |-> [client EXCEPT !.available = @ - value],
               db |-> save(db, rec),
               branch |-> "withdrawal"]

WithdrawalArm(client, db, rec) ==
    IF is_none(rec.value)
    THEN [client |-> client, db |-> db, branch |-> "panic"]
    ELSE LET value == unwrap(rec.value) IN
         IF client.available < value
         THEN [client |-> client, db |-> save(db, rec), branch |-> "insufficient"]
         ELSE [client |-> [client EXCEPT !.available = @ - value],
               db |-> save(db, rec),
               branch |-> "withdrawal"]

\* The Dispute arm that ignores a tx the client holds in dispute already.
DisputeArm_once(client, db, rec) ==
    LET found == query(db, rec.transaction_id) IN
    IF is_none(found)
    THEN [client |-> client, db |-> db, branch |-> "not_found"]
    ELSE LET referenced_tx == unwrap(found)
             value == unwrap(referenced_tx.value)
         IN IF referenced_tx.transaction_id \in client.txns_under_dispute
            THEN [client |-> client, db |-> db, branch |-> "not_found"]
            ELSE [client |->
                     [client EXCEPT
                         !.txns_under_dispute = @ \cup {referenced_tx.transaction_id},
                         !.available = @ - value,
                         !.held = @ + value],
                  db |-> db,
                  branch |-> "dispute"]

\* The Dispute arm that accepts a stored Deposit only.
DisputeArm_deposits_only(client, db, rec) ==
    LET found == query(db, rec.transaction_id) IN
    IF is_none(found)
    THEN [client |-> client, db |-> db, branch |-> "not_found"]
    ELSE LET referenced_tx == unwrap(found)
             value == unwrap(referenced_tx.value)
         IN IF referenced_tx.transaction_type # "Deposit"
            THEN [client |-> client, db |-> db, branch |-> "not_found"]
            ELSE [client |->
                     [client EXCEPT
                         !.txns_under_dispute = @ \cup {referenced_tx.transaction_id},
                         !.available = @ - value,
                         !.held = @ + value],
                  db |-> db,
                  branch |-> "dispute"]

\* The Dispute arm without the `continue` of a missing tx: the id is marked
\* disputed although nothing is stored under it.
DisputeArm_marks_unknown(client, db, rec) ==
    LET found == query(db, rec.transaction_id) IN
    IF is_none(found)
    THEN [client |-> [client EXCEPT !.txns_under_dispute = @ \cup {rec.transaction_id}],
          db |-> db,
          branch |-> "not_found"]
    ELSE LET value == unwrap(unwrap(found).value)
         IN [client |->
                [client EXCEPT
                    !.txns_under_dispute = @ \cup {rec.transaction_id},
                    !.available = @ - value,
                    !.held = @ + value],
             db |-> db,
             branch |-> "dispute"]

DisputeArm(client, db, rec) ==
    LET found == query(db, rec.transaction_id) IN
    IF is_none(found)
    THEN [client |-> client, db |-> db, branch |-> "not_found"]
    ELSE LET referenced_tx == unwrap(found)
             value == unwrap(referenced_tx.value)
         IN [client |->
                [client EXCEPT
                    !.txns_under_dispute = @ \cup {referenced_tx.transaction_id},
                    !.available = @ - value,
                    !.held = @ + value],
             db |-> db,
             branch |-> "dispute"]

\* The Resolve arm that leaves the tx in the disputed set.
ResolveArm_keeps_mark(client, db, rec) ==
    LET found == query(db, rec.transaction_id) IN
    IF is_none(found)
    THEN [client |-> client, db |-> db, branch |-> "not_found"]
    ELSE LET referenced_tx == unwrap(found)
             value == unwrap(referenced_tx.value)
         IN IF referenced_tx.transaction_id \notin client.txns_under_dispute
            THEN [client |-> client, db |-> db, branch |-> "not_disputed"]
            ELSE [client |->
                     [client EXCEPT
                         !.held = @ - value,
                         !.available = @ + value],
                  db |-> db,
                  branch |-> "resolve"]

\* The Resolve arm that releases the held funds without returning them.
ResolveArm_keeps_available(client, db, rec) ==
    LET found == query(db, rec.transaction_id) IN
    IF is_none(found)
    THEN [client |-> client, db |-> db, branch |-> "not_found"]
    ELSE LET referenced_tx == unwrap(found)
             value == unwrap(referenced_tx.value)
         IN IF referenced_tx.transaction_id \notin client.txns_under_dispute
            THEN [client |-> client, db |-> db, branch |-> "not_disputed"]
            ELSE [client |->
                     [client EXCEPT
                         !.txns_under_dispute = @ \ {referenced_tx.transaction_id},
                         !.held = @ - value],
                  db |-> db,
                  branch |-> "resolve"]

ResolveArm(client, db, rec) ==
    LET found == query(db, rec.transaction_id) IN
    IF is_none(found)
    THEN [client |-> client, db |-> db, branch |-> "not_found"]
    ELSE LET referenced_tx == unwrap(found)
             value == unwrap(referenced_tx.value)
         IN IF referenced_tx.transaction_id \notin client.txns_under_dispute
            THEN [client |-> client, db |-> db, branch |-> "not_disputed"]
            ELSE [client |->
                     [client EXCEPT
                         !.txns_under_dispute = @ \ {referenced_tx.transaction_id},
                         !.held = @ - value,
                         !.available = @ + value],
                  db |-> db,
                  branch |-> "resolve"]

\* The Chargeback arm that forgets to lock the client.
ChargebackArm_no_lock(client, db, rec) ==
    LET found == query(db, rec.transaction_id) IN
    IF is_none(found)
    THEN [client |-> client, db |-> db, branch |-> "not_found"]
    ELSE LET referenced_tx == unwrap(found)
             value == unwrap(referenced_tx.value)
         IN IF referenced_tx.transaction_id \notin client.txns_under_dispute
            THEN [client |-> client, db |-> db, branch |-> "not_disputed"]
            ELSE [client |->
                     [client EXCEPT
                         !.txns_under_dispute = @ \ {referenced_tx.transaction_id},
                         !.held = @ - value],
                  db |-> db,
                  branch |-> "chargeback"]

\* The Chargeback arm that returns the funds as a Resolve does.
ChargebackArm_refunds(client, db, rec) ==
    LET found == query(db, rec.transaction_id) IN
    IF is_none(found)
    THEN [client |-> client, db |-> db, branch |-> "not_found"]
    ELSE LET referenced_tx == unwrap(found)
             value == unwrap(referenced_tx.value)
         IN IF referenced_tx.transaction_id \notin client.txns_under_dispute
            THEN [client |-> client, db |-> db, branch |-> "not_disputed"]
            ELSE [client |->
                     [client EXCEPT
                         !.txns_under_dispute = @ \ {referenced_tx.transaction_id},
                         !.held = @ - value,
                         !.available = @ + value,
                         !.locked = TRUE],
                  db |-> db,
                  branch |-> "chargeback"]

\* The Chargeback arm without the check of the disputed set.
ChargebackArm_unchecked(client, db, rec) ==
    LET found == query(db, rec.transaction_id) IN
    IF is_none(found)
    THEN [client |-> client, db |-> db, branch |-> "not_found"]
    ELSE LET referenced_tx == unwrap(found)
             value == unwrap(referenced_tx.value)
         IN [client |->
                [client EXCEPT
                    !.txns_under_dispute = @ \ {referenced_tx.transaction_id},
                    !.held = @ - value,
                    !.locked = TRUE],
             db |-> db,
             branch |-> "chargeback"]

ChargebackArm(client, db, rec) ==
    LET found == query(db, rec.transaction_id) IN
    IF is_none(found)
    THEN [client |-> client, db |-> db, branch |-> "not_found"]
    ELSE LET referenced_tx == unwrap(found)
             value == unwrap(referenced_tx.value)
         IN IF referenced_tx.transaction_id \notin client.txns_under_dispute
            THEN [client |-> client, db |-> db, branch |-> "not_disputed"]
            ELSE [client |->
                     [client EXCEPT
                         !.txns_under_dispute = @ \ {referenced_tx.transaction_id},
                         !.held = @ - value,
                         !.locked = TRUE],
                  db |-> db,
                  branch |-> "chargeback"]

\* match record.transaction_type
Match(client, db, rec) ==
    CASE rec.transaction_type = "Deposit" -> DepositArm(client, db, rec)
      [] rec.transaction_type = "Withdrawal" -> WithdrawalArm(client, db, rec)
      [] rec.transaction_type = "Dispute" -> DisputeArm(client, db, rec)
      [] rec.transaction_type = "Resolve" -> ResolveArm(client, db, rec)
      [] rec.transaction_type = "Chargeback" -> ChargebackArm(client, db, rec)

\* "Create a default client if none exists"
CreateClient(states, id) ==
    IF is_none(states[id])
    THEN [states EXCEPT ![id] = Some(ClientState_new)]
    ELSE states

\* The first-seen list that takes the id of every record.
PushSeen_always(seen, states, id) == Append(seen, id)

PushSeen(seen, states, id) ==
    IF is_none(states[id]) THEN Append(seen, id) ELSE seen

\* A run that skips a row that does not decode and goes on.
OnErr_skips == "running"

\* A run that goes on after a Deposit or Withdrawal without an amount.
OnPanic_goes_on == "running"

\* What the run does when unwrapping a missing amount panics.
OnPanic == "panicked"

\* What the run does when record_iter yields an Err: `record?` returns it.
OnErr == "error"

\* History of the amount a Dispute moved, per client and tx: opened by a
\* Dispute that was applied, closed by the client's next Resolve or Chargeback
\* on the tx.  While it is open it notes whether a Deposit or Withdrawal was
\* applied (between) and whether one saved the tx id again (resaved).
MovedAfter(rec, res) ==
    LET id == rec.client_id
        tx == rec.transaction_id
    IN CASE res.branch = "dispute" ->
              [moved EXCEPT ![id][tx] =
                  Some([amount |-> unwrap(tx_database[tx].value), open |-> TRUE,
                        between |-> FALSE, resaved |-> FALSE])]
         [] rec.transaction_type \in {"Resolve", "Chargeback"} ->
              [moved EXCEPT ![id][tx] =
                  IF is_some(@) THEN Some([unwrap(@) EXCEPT !.open = FALSE]) ELSE @]
         [] res.branch \in {"deposit", "withdrawal", "insufficient"} ->
              [c \in ClientId |->
                  [t \in TransactionId |->
                      IF is_some(moved[c][t]) /\ unwrap(moved[c][t]).open
                      THEN Some([unwrap(moved[c][t]) EXCEPT
                                    !.between = TRUE,
                                    !.resaved = @ \/ t = tx])
                      ELSE moved[c][t]]]
         [] OTHER -> moved

\* History of a round trip: an applied Dispute opens it with the client's state
\* before the Dispute; a Resolve by the same client on the same tx right after
\* it closes it; any other record forgets it.
TripAfter(rec, before, res) ==
    IF res.branch = "dispute"
    THEN Some([client |-> rec.client_id, tx |-> rec.transaction_id,
               before |-> before, stage |-> "disputed"])
    ELSE IF /\ rec.transaction_type = "Resolve"
            /\ is_some(trip)
            /\ unwrap(trip).stage = "disputed"
            /\ unwrap(trip).client = rec.client_id
            /\ unwrap(trip).tx = rec.transaction_id
         THEN Some([unwrap(trip) EXCEPT !.stage = "resolved"])
         ELSE None

\* History of the Chargebacks that passed their checks: the tx is stored and
\* is in the disputed set of the client of the record.
ChargedAfter(rec) ==
    IF /\ rec.transaction_type = "Chargeback"
       /\ rec.transaction_id \in DOMAIN tx_database
       /\ is_some(client_states[rec.client_id])
       /\ rec.transaction_id \in unwrap(client_states[rec.client_id]).txns_under_dispute
    THEN charged \cup {rec.client_id}
    ELSE charged

\* History of a run of consecutive Disputes by one client on one tx: the first
\* opens it with the client's held funds, each next one counts, the client's
\* Resolve or Chargeback on the tx right after them closes it; any other
\* record forgets it.
StreakAfter(rec, before, res) ==
    LET same == /\ is_some(streak)
                /\ ~unwrap(streak).closed
                /\ unwrap(streak).client = rec.client_id
                /\ unwrap(streak).tx = rec.transaction_id
    IN CASE res.branch = "dispute" /\ same ->
              Some([unwrap(streak) EXCEPT !.k = @ + 1])
         [] res.branch = "dispute" /\ ~same ->
              Some([client |-> rec.client_id, tx |-> rec.transaction_id, k |-> 1,
                    held0 |-> before.held, closed |-> FALSE])
         [] rec.transaction_type \in {"Resolve", "Chargeback"} /\ same ->
              Some([unwrap(streak) EXCEPT !.closed = TRUE])
         [] OTHER -> None

\* The loop body that takes, for a dispute-family record on a stored tx, the
\* client of the stored record where the code takes the client of the record.
LoopBody_on_owner(rec) ==
    /\ pc = "running"
    /\ n < MaxRecords
    /\ LET id == IF /\ rec.transaction_type \in DisputeFamily
                    /\ rec.transaction_id \in DOMAIN tx_database
                 THEN tx_database[rec.transaction_id].client_id
                 ELSE rec.client_id
           states == CreateClient(client_states, id)
           res == Match(unwrap(states[id]), tx_database, rec)
       IN /\ client_states' = [states EXCEPT ![id] = Some(res.client)]
          /\ seen_clients' = PushSeen(seen_clients, client_states, id)
          /\ tx_database' = res.db
          /\ branch' = res.branch
          /\ pc' = IF res.branch = "panic" THEN OnPanic ELSE "running"
          /\ created' = is_none(client_states[id])
          /\ moved' = moved
          /\ trip' = None
          /\ streak' = None
    /\ charged' = charged
    /\ record' = Some(rec)
    /\ n' = n + 1
    /\ clients_read' = Append(clients_read, rec.client_id)
    /\ UNCHANGED output

\* One pass of the body of the for loop of handle_transactions on record rec.
LoopBody(rec) ==
    /\ pc = "running"
    /\ n < MaxRecords
    /\ LET id == rec.client_id
           states == CreateClient(client_states, id)
           res == Match(unwrap(states[id]), tx_database, rec)
       IN /\ client_states' = [states EXCEPT ![id] = Some(res.client)]
          /\ seen_clients' = PushSeen(seen_clients, client_states, id)
          /\ tx_database' = res.db
          /\ branch' = res.branch
          /\ pc' = IF res.branch = "panic" THEN OnPanic ELSE "running"
          /\ created' = is_none(client_states[id])
          /\ moved' = MovedAfter(rec, res)
          /\ trip' = TripAfter(rec, unwrap(states[id]), res)
          /\ streak' = StreakAfter(rec, unwrap(states[id]), res)
    /\ charged' = ChargedAfter(rec)
    /\ record' = Some(rec)
    /\ n' = n + 1
    /\ clients_read' = Append(clients_read, rec.client_id)
    /\ UNCHANGED output

Deposit ==
    \E rec \in TransactionRecord :
        /\ rec.transaction_type = "Deposit"
        /\ LoopBody(rec)

Withdrawal ==
    \E rec \in TransactionRecord :
        /\ rec.transaction_type = "Withdrawal"
        /\ LoopBody(rec)

Dispute ==
    \E rec \in TransactionRecord :
        /\ rec.transaction_type = "Dispute"
        /\ LoopBody(rec)

Resolve ==
    \E rec \in TransactionRecord :
        /\ rec.transaction_type = "Resolve"
        /\ LoopBody(rec)

Chargeback ==
    \E rec \in TransactionRecord :
        /\ rec.transaction_type = "Chargeback"
        /\ LoopBody(rec)

\* record_iter yields an Err (a row that does not decode): `let record = record?`
DecodeError ==
    /\ pc = "running"
    /\ n < MaxRecords
    /\ pc' = OnErr
    /\ branch' = "decode_error"
    /\ record' = None
    /\ created' = FALSE
    /\ n' = n + 1
    /\ trip' = None
    /\ streak' = None
    /\ UNCHANGED <<client_states, seen_clients, tx_database, output,
                   clients_read, moved, charged>>

\* The rows write_output serializes, in the order of seen_clients.
Rows(seen, states) ==
    [i \in 1..Len(seen) |-> from_id_and_state(seen[i], unwrap(states[seen[i]]))]

\* record_iter is exhausted: handle_transactions returns Ok(()) and main calls
\* write_output.
write_output ==
    /\ pc = "running"
    /\ output' = Rows(seen_clients, client_states)
    /\ pc' = "done"
    /\ UNCHANGED <<client_states, seen_clients, tx_database, record, branch,
                   created, n, clients_read, moved, trip, charged, streak>>

Next ==
    \/ Deposit
    \/ Withdrawal
    \/ Dispute
    \/ Resolve
    \/ Chargeback
    \/ DecodeError
    \/ write_output

Spec == Init /\ [][Next]_vars

\* The runs whose rows are Deposits and Withdrawals of amounts that are not
\* negative.
PlainDeposit ==
    \E rec \in TransactionRecord :
        /\ rec.transaction_type = "Deposit"
        /\ \A a \in rec.value : a >= 0
        /\ LoopBody(rec)

PlainWithdrawal ==
    \E rec \in TransactionRecord :
        /\ rec.transaction_type = "Withdrawal"
        /\ \A a \in rec.value : a >= 0
        /\ LoopBody(rec)

NextPlain ==
    \/ PlainDeposit
    \/ PlainWithdrawal
    \/ write_output

SpecPlain == Init /\ [][NextPlain]_vars

\* The program is one thread that runs until it returns or panics: a step that
\* can be taken is taken.
FairSpec == Spec /\ WF_vars(Next)

\* The runs in which no tx id is saved twice and no client disputes a tx that
\* is in its own disputed set.
FreshDeposit ==
    \E rec \in TransactionRecord :
        /\ rec.transaction_type = "Deposit"
        /\ rec.transaction_id \notin DOMAIN tx_database
        /\ LoopBody(rec)

FreshWithdrawal ==
    \E rec \in TransactionRecord :
        /\ rec.transaction_type = "Withdrawal"
        /\ rec.transaction_id \notin DOMAIN tx_database
        /\ LoopBody(rec)

FirstDispute ==
    \E rec \in TransactionRecord :
        /\ rec.transaction_type = "Dispute"
        /\ \A state \in client_states[rec.client_id] :
              rec.transaction_id \notin state.txns_under_dispute
        /\ LoopBody(rec)

NextOnce ==
    \/ FreshDeposit
    \/ FreshWithdrawal
    \/ FirstDispute
    \/ Resolve
    \/ Chargeback
    \/ DecodeError
    \/ write_output

SpecOnce == Init /\ [][NextOnce]_vars

\* ---------------------------------------------------------------- claims
\* The step is a pass of the loop body: it took one more item from record_iter
\* and that item was a record.
Applied == n' = n + 1 /\ is_some(record')

\* The record of the step.
rec_ == unwrap(record')

\* The state of client id when the match starts: its state, or the state just
\* created for it.
AtMatch(id) == unwrap(CreateClient(client_states, id)[id])

\* The state of client id after the step.
After(id) == unwrap(client_states'[id])

\* The record last handled, in the state after it.
last == unwrap(record)

\* C1: every emitted row has total = available + held, and its available and
\* held are those of the client's state after the last record.
C1_TotalIsAvailablePlusHeld ==
    pc = "done" =>
        \A i \in 1..Len(output) :
            LET row == output[i]
                state == unwrap(client_states[row.client_id])
            IN /\ row.total = row.available + row.held
               /\ row.available = state.available
               /\ row.held = state.held
               /\ row.total = state.available + state.held

\* C1 witness: a row is written for a client with funds both available and held.
C1_Witness ==
    /\ pc = "done"
    /\ \E i \in 1..Len(output) : output[i].available > 0 /\ output[i].held > 0

\* C2 as claimed: a Dispute, Resolve or Chargeback on a tx that is not in the
\* record store leaves the ledger, the first-seen list and the store as they
\* were, whatever client id it carries.
C2_UnknownTxStrictNoOp ==
    [][(/\ Applied
        /\ rec_.transaction_type \in DisputeFamily
        /\ rec_.transaction_id \notin DOMAIN tx_database)
       => UNCHANGED <<client_states, seen_clients, tx_database>>]_vars

\* C2 amended: such a record leaves the store and every existing client as
\* they were; when its client id was never referenced before, the only change
\* is that this client is created zeroed and appended to the first-seen list.
C2_UnknownTxNoOpButCreation ==
    [][(/\ Applied
        /\ rec_.transaction_type \in DisputeFamily
        /\ rec_.transaction_id \notin DOMAIN tx_database)
       => /\ tx_database' = tx_database
          /\ \A c \in ClientId \ {rec_.client_id} : client_states'[c] = client_states[c]
          /\ IF is_some(client_states[rec_.client_id])
             THEN /\ client_states' = client_states
                  /\ seen_clients' = seen_clients
             ELSE /\ client_states'[rec_.client_id] = Some(ClientState_new)
                  /\ seen_clients' = Append(seen_clients, rec_.client_id)]_vars

\* C2 witness: a Dispute on an unknown tx was ignored for a client that had
\* funds and an open dispute already.
C2_Witness ==
    /\ branch = "not_found"
    /\ ~created
    /\ last.transaction_type = "Dispute"
    /\ last.transaction_id \notin DOMAIN tx_database
    /\ unwrap(client_states[last.client_id]).held > 0

\* C3: for an existing client, a Resolve or Chargeback on a stored tx that is
\* not in the client's own disputed set changes nothing.
C3_NotDisputedNoOp ==
    [][(/\ Applied
        /\ rec_.transaction_type \in {"Resolve", "Chargeback"}
        /\ is_some(client_states[rec_.client_id])
        /\ rec_.transaction_id \in DOMAIN tx_database
        /\ rec_.transaction_id \notin
               unwrap(client_states[rec_.client_id]).txns_under_dispute)
       => UNCHANGED <<client_states, seen_clients, tx_database>>]_vars

\* C3 witness: a Chargeback was ignored for a client while the tx is disputed
\* by the other client only.
C3_Witness ==
    /\ branch = "not_disputed"
    /\ ~created
    /\ last.transaction_type = "Chargeback"
    /\ last.transaction_id \in DOMAIN tx_database
    /\ \E c \in ClientId \ {last.client_id} :
          /\ is_some(client_states[c])
          /\ last.transaction_id \in unwrap(client_states[c]).txns_under_dispute
    /\ last.transaction_id \notin unwrap(client_states[last.client_id]).txns_under_dispute
    /\ ~unwrap(client_states[last.client_id]).locked

\* C4: a Dispute by client c on a stored tx of amount a takes a from c's
\* available, adds a to c's held, puts the tx in c's disputed set and leaves
\* c's total and locked flag as they were, for a stored Deposit and for a
\* stored Withdrawal alike.
C4_DisputeMovesAmount ==
    [][(/\ Applied
        /\ rec_.transaction_type = "Dispute"
        /\ rec_.transaction_id \in DOMAIN tx_database)
       => LET c == rec_.client_id
              a == unwrap(tx_database[rec_.transaction_id].value)
          IN /\ After(c).available = AtMatch(c).available - a
             /\ After(c).held = AtMatch(c).held + a
             /\ After(c).txns_under_dispute =
                    AtMatch(c).txns_under_dispute \cup {rec_.transaction_id}
             /\ After(c).available + After(c).held =
                    AtMatch(c).available + AtMatch(c).held
             /\ After(c).locked = AtMatch(c).locked]_vars

\* C4 witness: the second record of the run disputes the Withdrawal that the
\* first record asked of an empty account, which was refused.
C4_Witness ==
    /\ n = 2
    /\ branch = "dispute"
    /\ tx_database[last.transaction_id].transaction_type = "Withdrawal"
    /\ tx_database[last.transaction_id].client_id = last.client_id
    /\ LET state == unwrap(client_states[last.client_id])
           a == unwrap(tx_database[last.transaction_id].value)
       IN /\ state.available = 0 - a
          /\ state.held = a
          /\ last.transaction_id \in state.txns_under_dispute

\* C5: a Dispute by c on a stored tx with a Resolve by c on the same tx right
\* after it leaves c's available, held and locked as before the Dispute.
C5_DisputeResolveRoundTrip ==
    (is_some(trip) /\ unwrap(trip).stage = "resolved") =>
        LET t == unwrap(trip)
            state == unwrap(client_states[t.client])
        IN /\ state.available = t.before.available
           /\ state.held = t.before.held
           /\ state.locked = t.before.locked

\* C5 witness: the round trip was made by a client that had more funds
\* available than the disputed amount.
C5_Witness ==
    /\ is_some(trip)
    /\ unwrap(trip).stage = "resolved"
    /\ branch = "resolve"
    /\ unwrap(trip).before.available > unwrap(tx_database[unwrap(trip).tx].value)

\* C6 as claimed: when c's next dispute-family record on t after its Dispute
\* is a Chargeback, it takes from held the amount the Dispute moved, locks c,
\* takes t out of the disputed set and leaves available alone, whatever
\* Deposits and Withdrawals came in between.
C6_ChargebackRemovesDisputedAmount ==
    [][(/\ Applied
        /\ rec_.transaction_type = "Chargeback"
        /\ is_some(moved[rec_.client_id][rec_.transaction_id])
        /\ unwrap(moved[rec_.client_id][rec_.transaction_id]).open)
       => LET c == rec_.client_id
              a == unwrap(moved[c][rec_.transaction_id]).amount
          IN /\ After(c).held = AtMatch(c).held - a
             /\ After(c).locked
             /\ rec_.transaction_id \notin After(c).txns_under_dispute
             /\ After(c).available = AtMatch(c).available]_vars

\* C6 amended: the same, whatever Deposits and Withdrawals came in between
\* that do not carry the tx id t.
C6_ChargebackRemovesAmountUnlessResaved ==
    [][(/\ Applied
        /\ rec_.transaction_type = "Chargeback"
        /\ is_some(moved[rec_.client_id][rec_.transaction_id])
        /\ unwrap(moved[rec_.client_id][rec_.transaction_id]).open
        /\ ~unwrap(moved[rec_.client_id][rec_.transaction_id]).resaved)
       => LET c == rec_.client_id
              a == unwrap(moved[c][rec_.transaction_id]).amount
          IN /\ After(c).held = AtMatch(c).held - a
             /\ After(c).locked
             /\ rec_.transaction_id \notin After(c).txns_under_dispute
             /\ After(c).available = AtMatch(c).available]_vars

\* C6 witness: a Chargeback closed a dispute of amount 2 after a Deposit or
\* Withdrawal on another tx id was applied between the two; held is back at 0.
C6_Witness ==
    /\ branch = "chargeback"
    /\ moved[last.client_id][last.transaction_id] =
           Some([amount |-> 2, open |-> FALSE, between |-> TRUE, resaved |-> FALSE])
    /\ unwrap(client_states[last.client_id]).locked
    /\ unwrap(client_states[last.client_id]).held = 0
    /\ last.transaction_id \notin unwrap(client_states[last.client_id]).txns_under_dispute

\* C7: a Withdrawal of more than the client's available leaves the client's
\* available, held, locked and disputed set alone and is saved in the store,
\* so that a Dispute on its tx then finds it and moves its amount from
\* available to held.
C7_RefusedWithdrawalIsStored ==
    [][(/\ Applied
        /\ rec_.transaction_type = "Withdrawal"
        /\ is_some(rec_.value)
        /\ unwrap(rec_.value) > AtMatch(rec_.client_id).available)
       => /\ After(rec_.client_id) = AtMatch(rec_.client_id)
          /\ query(tx_database', rec_.transaction_id) = Some(rec_)
          /\ \A c \in ClientId :
                LET before == unwrap(CreateClient(client_states', c)[c])
                    res == Match(before, tx_database',
                                 [transaction_type |-> "Dispute", client_id |-> c,
                                  transaction_id |-> rec_.transaction_id,
                                  value |-> None])
                IN /\ res.client.available = before.available - unwrap(rec_.value)
                   /\ res.client.held = before.held + unwrap(rec_.value)
                   /\ rec_.transaction_id \in res.client.txns_under_dispute]_vars

\* C7 witness: a client with funds asked for more than it had; the Withdrawal
\* is in the store and the funds are as they were.
C7_Witness ==
    /\ branch = "insufficient"
    /\ tx_database[last.transaction_id] = last
    /\ unwrap(client_states[last.client_id]).available = 1
    /\ unwrap(last.value) = 2

\* C8: a Deposit of amount a adds a to the client's available, leaves held,
\* locked and the disputed set alone and is saved under its tx id; a client
\* never seen before ends with available a and held 0.
C8_DepositAddsAmount ==
    [][(/\ Applied
        /\ rec_.transaction_type = "Deposit"
        /\ is_some(rec_.value))
       => LET c == rec_.client_id IN
          /\ After(c) = [AtMatch(c) EXCEPT !.available = @ + unwrap(rec_.value)]
          /\ query(tx_database', rec_.transaction_id) = Some(rec_)
          /\ is_none(client_states[c]) =>
                /\ After(c).available = unwrap(rec_.value)
                /\ After(c).held = 0]_vars

\* C8 witness: a Deposit was applied to a client that had funds available and
\* funds held.
C8_Witness ==
    /\ branch = "deposit"
    /\ ~created
    /\ unwrap(client_states[last.client_id]).available > unwrap(last.value)
    /\ unwrap(client_states[last.client_id]).held > 0

\* The ids of seq in the order of their first occurrence.
RECURSIVE FirstOccurrences(_)
FirstOccurrences(seq) ==
    IF seq = <<>>
    THEN <<>>
    ELSE LET front == FirstOccurrences(SubSeq(seq, 1, Len(seq) - 1))
             x == seq[Len(seq)]
         IN IF \E i \in 1..Len(front) : front[i] = x THEN front ELSE Append(front, x)

\* C9: the output of a successful run has one row per client id of the input,
\* in the order in which the ids first occur in the input.
C9_RowsInFirstSeenOrder ==
    pc = "done" =>
        [i \in 1..Len(output) |-> output[i].client_id] = FirstOccurrences(clients_read)

\* C9 witness: client 2 occurs before client 1 in an input that names a client
\* more than once, and the rows are in that order.
C9_Witness ==
    /\ pc = "done"
    /\ Len(output) = 2
    /\ output[1].client_id = 2
    /\ output[2].client_id = 1
    /\ Len(clients_read) > 2

\* A fatal record was met: a row that did not decode, or a Deposit or
\* Withdrawal without an amount.
Fatal == branch \in {"decode_error", "panic"}

\* C10: once a fatal record is met nothing more happens: no later record is
\* applied and no row is written.
C10_FatalStopsWithoutOutput ==
    /\ [][Fatal => UNCHANGED vars]_vars
    /\ [](Fatal => output = <<>>)

\* C10 witness: the run met a fatal record with input left to read, after a
\* Deposit had been applied.
C10_Witness ==
    /\ Fatal
    /\ n < MaxRecords
    /\ output = <<>>
    /\ \E c \in ClientId :
          is_some(client_states[c]) /\ unwrap(client_states[c]).available > 0

\* The elements of a sequence.
Range(seq) == {seq[i] : i \in 1..Len(seq)}

\* The clients that exist in the ledger.
Existing == {c \in ClientId : is_some(client_states[c])}

\* C11: a client is created by the first record of any kind that carries its
\* id, from available 0, held 0, unlocked and no disputes; it is never removed;
\* the first-seen list holds exactly the ids of the existing clients, each once.
C11_ClientLifecycle ==
    /\ [](/\ Existing = Range(clients_read)
          /\ Range(seen_clients) = Existing
          /\ Len(seen_clients) = Cardinality(Existing))
    /\ [][/\ \A c \in ClientId : is_some(client_states[c]) => is_some(client_states'[c])
          /\ (Applied /\ is_none(client_states[rec_.client_id])) =>
                LET zero == [available |-> 0, held |-> 0, locked |-> FALSE,
                             txns_under_dispute |-> {}]
                IN /\ After(rec_.client_id) = Match(zero, tx_database, rec_).client
                   /\ rec_.transaction_type \in DisputeFamily =>
                         \/ After(rec_.client_id) = zero
                         \/ /\ rec_.transaction_type = "Dispute"
                            /\ rec_.transaction_id \in DOMAIN tx_database]_vars

\* C11 witness: a Resolve on an unknown tx, otherwise ignored, created the
\* second client of the ledger.
C11_Witness ==
    /\ created
    /\ branch = "not_found"
    /\ last.transaction_type = "Resolve"
    /\ Len(seen_clients) = 2
    /\ seen_clients[2] = last.client_id
    /\ unwrap(client_states[last.client_id]) =
           [available |-> 0, held |-> 0, locked |-> FALSE, txns_under_dispute |-> {}]

\* C12: the record store holds Deposit and Withdrawal records only, each under
\* its own tx id and with its amount; its key set never shrinks.
C12_StoreHoldsAmountRecords ==
    /\ [](\A t \in DOMAIN tx_database :
             /\ tx_database[t].transaction_type \in {"Deposit", "Withdrawal"}
             /\ tx_database[t].transaction_id = t
             /\ is_some(tx_database[t].value))
    /\ [][/\ DOMAIN tx_database \subseteq DOMAIN tx_database'
          /\ (Applied /\ rec_.transaction_type \in DisputeFamily) =>
                tx_database' = tx_database]_vars

\* C12 witness: the store holds a Deposit and a Withdrawal, and the Dispute
\* that was applied last is not in it.
C12_Witness ==
    /\ branch = "dispute"
    /\ Cardinality(DOMAIN tx_database) = 2
    /\ \E t \in DOMAIN tx_database : tx_database[t].transaction_type = "Deposit"
    /\ \E t \in DOMAIN tx_database : tx_database[t].transaction_type = "Withdrawal"
    /\ \A t \in DOMAIN tx_database : tx_database[t] # last

\* The state client c has after the step when a match starts on it.
AtNextMatch(c) == unwrap(CreateClient(client_states', c)[c])

\* A dispute-family row.
Referring(kind, c, t) ==
    [transaction_type |-> kind, client_id |-> c, transaction_id |-> t, value |-> None]

\* C13: a Deposit or Withdrawal whose tx id is in the store already replaces
\* the entry as a whole and changes no disputed set; a Dispute, Resolve or
\* Chargeback on the id then uses the amount of the record just saved.
C13_LastWriteWins ==
    [][(/\ Applied
        /\ rec_.transaction_type \in {"Deposit", "Withdrawal"}
        /\ is_some(rec_.value)
        /\ rec_.transaction_id \in DOMAIN tx_database)
       => LET t == rec_.transaction_id
              a == unwrap(rec_.value)
          IN /\ DOMAIN tx_database' = DOMAIN tx_database
             /\ tx_database'[t] = rec_
             /\ \A u \in DOMAIN tx_database \ {t} : tx_database'[u] = tx_database[u]
             /\ \A c \in ClientId :
                   AtNextMatch(c).txns_under_dispute = AtMatch(c).txns_under_dispute
             /\ \A c \in ClientId :
                   LET d == Match(AtNextMatch(c), tx_database', Referring("Dispute", c, t)).client
                   IN d.held = AtNextMatch(c).held + a
                      /\ d.available = AtNextMatch(c).available - a
             /\ \A c \in ClientId : \A kind \in {"Resolve", "Chargeback"} :
                   t \in AtNextMatch(c).txns_under_dispute =>
                      Match(AtNextMatch(c), tx_database', Referring(kind, c, t)).client.held
                          = AtNextMatch(c).held - a]_vars

\* C13 witness: a Deposit or Withdrawal replaced the entry of a tx that a
\* client holds in dispute for another amount.
C13_Witness ==
    /\ branch \in {"deposit", "withdrawal", "insufficient"}
    /\ tx_database[last.transaction_id] = last
    /\ \E c \in ClientId :
          /\ is_some(client_states[c])
          /\ last.transaction_id \in unwrap(client_states[c]).txns_under_dispute
          /\ is_some(moved[c][last.transaction_id])
          /\ unwrap(moved[c][last.transaction_id]).resaved
          /\ unwrap(moved[c][last.transaction_id]).amount # unwrap(last.value)

\* C14: a client is locked exactly when a Chargeback carrying its id passed
\* its checks earlier in the run; a locked client is never unlocked.
C14_LockedIffChargedBack ==
    /\ [](\A c \in Existing : unwrap(client_states[c]).locked <=> c \in charged)
    /\ [][\A c \in Existing :
             unwrap(client_states[c]).locked => unwrap(client_states'[c]).locked]_vars

\* C14 witness: a client was charged back and is locked, a record was applied
\* to it afterwards, and the other client is not locked.
C14_Witness ==
    /\ n = 4
    /\ branch \in {"deposit", "withdrawal", "dispute"}
    /\ unwrap(client_states[last.client_id]).locked
    /\ \E c \in Existing : ~unwrap(client_states[c]).locked

\* The ledger and the store after the loop body has run on rec from the ledger
\* states and the store db.
AfterRecord(states, db, rec) ==
    LET id == rec.client_id
        with == CreateClient(states, id)
        res == Match(unwrap(with[id]), db, rec)
    IN [states |-> [with EXCEPT ![id] = Some(res.client)],
        db |-> res.db,
        branch |-> res.branch]

\* The ledger with the locked flag of client c turned over.
FlipLocked(states, c) ==
    [states EXCEPT ![c] = Some([unwrap(@) EXCEPT !.locked = ~@])]

\* What is left of a ledger, a store and a branch when the locked flags are
\* not looked at.
Unlocked(r) ==
    [r EXCEPT !.states =
        [d \in ClientId |-> {[x EXCEPT !.locked = FALSE] : x \in r.states[d]}]]

\* C15: the locked flag has no part in a transition: the record of a step,
\* applied to the state with one client's locked flag turned over, gives every
\* client the available, held and disputed set the step gave it, and the same
\* store.
C15_LockedHasNoEffect ==
    [][Applied =>
          \A c \in Existing :
             Unlocked(AfterRecord(FlipLocked(client_states, c), tx_database, rec_))
                 = Unlocked([states |-> client_states', db |-> tx_database',
                             branch |-> branch'])]_vars

\* C15 witness: a Deposit was applied to a locked client and is in its
\* available funds and in the store.
C15_Witness ==
    /\ branch = "deposit"
    /\ ~created
    /\ unwrap(client_states[last.client_id]).locked
    /\ unwrap(client_states[last.client_id]).available = unwrap(last.value)
    /\ unwrap(client_states[last.client_id]).held = 0
    /\ tx_database[last.transaction_id] = last

\* C16: a record changes the state of no client but the one whose id it
\* carries, also when it refers to a tx stored for another client.
C16_OnlyOwnClientChanges ==
    [][Applied =>
          \A c \in ClientId \ {rec_.client_id} : client_states'[c] = client_states[c]]_vars

\* C16 witness: a client disputed a Deposit stored for the other client; the
\* amount moved in the disputing client's funds and the depositor's are as the
\* Deposit left them.
C16_Witness ==
    /\ n = 2
    /\ branch = "dispute"
    /\ LET stored == tx_database[last.transaction_id]
           a == unwrap(stored.value)
       IN /\ stored.transaction_type = "Deposit"
          /\ stored.client_id # last.client_id
          /\ unwrap(client_states[stored.client_id]) =
                [available |-> a, held |-> 0, locked |-> FALSE,
                 txns_under_dispute |-> {}]
          /\ unwrap(client_states[last.client_id]) =
                [available |-> 0 - a, held |-> a, locked |-> FALSE,
                 txns_under_dispute |-> {last.transaction_id}]

\* C17: a Dispute by c on a tx that c holds in dispute already takes the stored
\* amount from available and adds it to held once more, with the disputed set
\* as it was; so after k consecutive Disputes and one Resolve or Chargeback,
\* k - 1 times the amount stay in held and no further Resolve or Chargeback on
\* the tx takes effect.
C17_RepeatedDisputeUnguarded ==
    /\ [][(/\ Applied
           /\ rec_.transaction_type = "Dispute"
           /\ rec_.transaction_id \in DOMAIN tx_database
           /\ rec_.transaction_id \in AtMatch(rec_.client_id).txns_under_dispute)
          => LET c == rec_.client_id
                 a == unwrap(tx_database[rec_.transaction_id].value)
             IN /\ After(c).available = AtMatch(c).available - a
                /\ After(c).held = AtMatch(c).held + a
                /\ After(c).txns_under_dispute = AtMatch(c).txns_under_dispute]_vars
    /\ [](is_some(streak) =>
             LET s == unwrap(streak)
                 state == unwrap(client_states[s.client])
                 a == unwrap(tx_database[s.tx].value)
             IN IF ~s.closed
                THEN /\ state.held = s.held0 + s.k * a
                     /\ s.tx \in state.txns_under_dispute
                ELSE /\ state.held = s.held0 + (s.k - 1) * a
                     /\ s.tx \notin state.txns_under_dispute
                     /\ \A kind \in {"Resolve", "Chargeback"} :
                           Match(state, tx_database, Referring(kind, s.client, s.tx)).client
                               = state)

\* C17 witness: two consecutive Disputes on a tx and a Resolve after them left
\* the amount once in held with no dispute open.
C17_Witness ==
    /\ is_some(streak)
    /\ unwrap(streak).closed
    /\ unwrap(streak).k = 2
    /\ unwrap(streak).held0 = 0
    /\ branch = "resolve"
    /\ LET state == unwrap(client_states[unwrap(streak).client])
       IN /\ state.held = unwrap(tx_database[unwrap(streak).tx].value)
          /\ state.txns_under_dispute = {}

\* C18 (under SpecPlain): in a run of Deposits and Withdrawals of amounts that
\* are not negative, every client's available is at least 0 and its held is 0
\* after every record, and a Withdrawal of no more than the available funds
\* takes exactly its amount from them.
C18_WithdrawalGuarded ==
    /\ [](\A c \in Existing :
             /\ unwrap(client_states[c]).available >= 0
             /\ unwrap(client_states[c]).held = 0)
    /\ [][(/\ Applied
           /\ rec_.transaction_type = "Withdrawal"
           /\ is_some(rec_.value)
           /\ unwrap(rec_.value) <= AtMatch(rec_.client_id).available)
          => After(rec_.client_id) =
                [AtMatch(rec_.client_id) EXCEPT !.available = @ - unwrap(rec_.value)]]_vars

\* C18 witness: a Withdrawal of 2 was granted and left 1 available.
C18_Witness ==
    /\ branch = "withdrawal"
    /\ unwrap(last.value) = 2
    /\ unwrap(client_states[last.client_id]).available = 1
    /\ unwrap(client_states[last.client_id]).held = 0

\* The sum of the amounts stored under the tx ids of a set.
RECURSIVE StoredSum(_)
StoredSum(txs) ==
    IF txs = {}
    THEN 0
    ELSE LET t == CHOOSE u \in txs : TRUE
         IN unwrap(tx_database[t].value) + StoredSum(txs \ {t})

\* C19 (under SpecOnce): when no tx id is saved twice and no client disputes a
\* tx that is in its own disputed set, every disputed id is in the store, a
\* client's held is the sum of the amounts stored under its disputed ids, and
\* held is not negative when no stored amount is.
C19_HeldIsSumOfDisputed ==
    \A c \in Existing :
        LET state == unwrap(client_states[c]) IN
        /\ state.txns_under_dispute \subseteq DOMAIN tx_database
        /\ state.held = StoredSum(state.txns_under_dispute)
        /\ (\A t \in DOMAIN tx_database : unwrap(tx_database[t].value) >= 0)
               => state.held >= 0

\* C19 witness: a client holds two txs in dispute, a Deposit of 1 and a
\* Withdrawal of 2, and its held is 3.
C19_Witness ==
    \E c \in Existing :
        /\ unwrap(client_states[c]).txns_under_dispute = {1, 2}
        /\ unwrap(client_states[c]).held = 3
        /\ tx_database[1].transaction_type = "Deposit"
        /\ tx_database[2].transaction_type = "Withdrawal"

\* The places where the arm of a record kind can be left.
Places(kind) ==
    CASE kind = "Deposit" -> {"deposit", "panic"}
      [] kind = "Withdrawal" -> {"withdrawal", "insufficient", "panic"}
      [] kind = "Dispute" -> {"dispute", "not_found"}
      [] kind = "Resolve" -> {"resolve", "not_found", "not_disputed"}
      [] kind = "Chargeback" -> {"chargeback", "not_found", "not_disputed"}

Ended == pc \in {"done", "error", "panicked"}

\* C20 (under FairSpec): the run ends; until then every step takes the next
\* item of the input and, when it is a record, runs the arm of its kind on it
\* once; the run ends when the input is exhausted, with the rows written, or at
\* the first fatal record, and all records taken before the end were applied.
C20_TerminatesInInputOrder ==
    /\ <>Ended
    /\ [][/\ ~Ended
          /\ \/ /\ pc' = "done"
                /\ n' = n
                /\ Len(output') = Len(seen_clients)
                /\ UNCHANGED <<client_states, seen_clients, tx_database, clients_read>>
             \/ /\ n' = n + 1
                /\ is_none(record')
                /\ pc' = "error"
                /\ UNCHANGED <<client_states, seen_clients, tx_database, clients_read>>
             \/ /\ n' = n + 1
                /\ is_some(record')
                /\ clients_read' = Append(clients_read, rec_.client_id)
                /\ branch' \in Places(rec_.transaction_type)
                /\ pc' = IF branch' = "panic" THEN "panicked" ELSE "running"]_vars
    /\ [](Len(clients_read) <= n /\ n <= MaxRecords)
    /\ [](pc \in {"running", "done"} => Len(clients_read) = n)
    /\ [](Fatal => Ended)

\* C20 witness: the input was exhausted after as many records as it may hold,
\* each of them applied, and the rows are written.
C20_Witness ==
    /\ pc = "done"
    /\ n = MaxRecords
    /\ Len(clients_read) = n
    /\ Len(output) = 2
    /\ branch = "chargeback"

====
